---------------------------- MODULE Spec2Model ----------------------------
(***************************************************************************)
(* A model of the sketch-guessing application of src/app.js (the version   *)
(* of lines 405-953): the persisted dataset store, the drawing session     *)
(* (canvas, strokes, prompt, displayed guess) and the classifier.          *)
(*                                                                         *)
(* Numbers.  JavaScript numbers are modelled in fixed point: an integer v  *)
(* stands for v/1000.  Ink intensities, features, distances, votes and the *)
(* margin are all in thousandths; stroke points and lengths are in canvas  *)
(* pixels.  Math.sqrt and Math.log are computed by integer approximations  *)
(* (Isqrt, Ln).  The value NaN stands for a JavaScript value on which      *)
(* arithmetic yields NaN: NaN itself, undefined (a missing field) and a    *)
(* non-numeric entry of a stored vector.                                   *)
(***************************************************************************)
EXTENDS Integers, Sequences, FiniteSets, TLC

(***************************************************************************)
(* Program constants.                                                      *)
(***************************************************************************)
GRID_SIZE == 16

\* the neighbourhood size of slice(0, 9)
NEAREST == 9

\* the canvas is 500 x 500 pixels
CANVAS_SIZE == 500

\* a subset of the 50 prompts of OBJECTS
OBJECTS == {"cat", "dog"}

(***************************************************************************)
(* Bounds of the model.                                                    *)
(***************************************************************************)
\* The eviction cap of slice(-2000), scaled down: the dataset keeps its
\* last Cap samples.
Cap == 3

\* Saves in one session (the logical clock of Date.now()).
MaxSaves == 1

\* Strokes recorded in one attempt, and points in one stroke.
MaxStrokes == 1

MaxPoints == 2

\* Entries of a persisted array in the startup specification.
MaxItems == 4

\* Inked cells of a grid in the specification of the gate.
MaxInked == 26

MaxSame == 3

MaxOrder == 3

MaxVoters == 10

MaxWide == 3

\* strokes on the list at once, and moves of one stroke, in the pointer runs
MaxDowns == 2

MaxMoves == 2

\* samples created by the two tabs together
MaxTabSaves == 2

\* the 300 ms of the polling interval, in steps of the model
TimerSteps == 2

\* changes of the drawing in a run of the timer-polled version
MaxRevision == 3

Cells == GRID_SIZE * GRID_SIZE

(***************************************************************************)
(* Fixed-point arithmetic with NaN.                                        *)
(***************************************************************************)
NaN == 0 - 1000000000

Max(a, b) == IF a >= b THEN a ELSE b

Min(a, b) == IF a <= b THEN a ELSE b

\* x - y
Sub(x, y) == IF x = NaN \/ y = NaN THEN NaN ELSE x - y

\* x + y
Add(x, y) == IF x = NaN \/ y = NaN THEN NaN ELSE x + y

\* Math.max(x, y) and Math.min(x, y): NaN if either is NaN
MathMax(x, y) == IF x = NaN \/ y = NaN THEN NaN ELSE Max(x, y)

MathMin(x, y) == IF x = NaN \/ y = NaN THEN NaN ELSE Min(x, y)

\* x || 0: NaN and undefined are falsy
OrZero(x) == IF x = NaN THEN 0 ELSE x

RECURSIVE SqrtIter(_, _)
SqrtIter(n, x) ==
  LET y == (x + n \div x) \div 2
  IN IF y >= x THEN x ELSE SqrtIter(n, y)

\* floor of the square root of n >= 0
Isqrt(n) == IF n < 2 THEN n ELSE SqrtIter(n, n)

\* Math.sqrt
Sqrt(x) == IF x = NaN \/ x < 0 THEN NaN ELSE Isqrt(x)

\* the function f with its values computed once
Table(f) == f @@ <<>>

RECURSIVE SumRange(_, _, _)
\* s[lo] + ... + s[hi], by halves
SumRange(s, lo, hi) ==
  IF lo > hi THEN 0
  ELSE IF lo = hi THEN s[lo]
  ELSE Add(SumRange(s, lo, (lo + hi) \div 2), SumRange(s, (lo + hi) \div 2 + 1, hi))

\* the sum of a sequence of numbers, NaN if one of them is NaN
Sum(s) == SumRange(s, 1, Len(s))

SumFrom(s, i) == SumRange(s, i, Len(s))

RECURSIVE LnNorm(_, _)
\* x in thousandths, x > 0: <<k, m>> with x = m * 2^k and 1000 <= m < 2000
LnNorm(x, k) ==
  IF x >= 2000 THEN LnNorm(x \div 2, k + 1)
  ELSE IF x < 1000 THEN LnNorm(x * 2, k - 1)
  ELSE <<k, x>>

\* Math.log(x + 1e-6): ln(2^k m) = k ln 2 + 2 atanh((m - 1)/(m + 1))
Ln(x) ==
  IF x = NaN \/ x < 0 THEN NaN
  ELSE IF x = 0 THEN 0 - 13816
  ELSE LET km == LnNorm(x, 0)
           z  == ((km[2] - 1000) * 1000) \div (km[2] + 1000)
           z3 == (z * z * z) \div 1000000
           z5 == (z3 * z * z) \div 1000000
       IN km[1] * 693 + 2 * (z + z3 \div 3 + z5 \div 5)

(***************************************************************************)
(* Feature extraction.  A vector is a sequence of Cells intensities, row   *)
(* major; the JavaScript index i is the index i + 1 here.                  *)
(***************************************************************************)
\* value > threshold and value <= threshold: both false on NaN
Gt(v, t) == v # NaN /\ v > t

Leq(v, t) == v # NaN /\ v <= t

CellX(i) == (i - 1) % GRID_SIZE

CellY(i) == (i - 1) \div GRID_SIZE

CellAt(x, y) == y * GRID_SIZE + x + 1

SetMin(S) == CHOOSE a \in S : \A b \in S : a <= b

SetMax(S) == CHOOSE a \in S : \A b \in S : a >= b

\* the cells with intensity above the shape threshold 0.2
ActiveCells(vector) == {i \in 1..Len(vector) : Gt(vector[i], 200)}

\* the mirror image taken in the grid instead of the bounding box
extractShapeFeatures_GridMirror(vector) ==
  LET active == ActiveCells(vector)
      ink    == Sum(vector)
  IN IF active = {}
     THEN [fillRatio |-> 0, aspectRatio |-> 1000, compactness |-> 0,
           symmetryX |-> 1000, symmetryY |-> 1000, edgeDensity |-> 0,
           lengthNorm |-> 0, straightness |-> 0]
     ELSE
       LET minX == SetMin({CellX(i) : i \in active})
           minY == SetMin({CellY(i) : i \in active})
           maxX == SetMax({CellX(i) : i \in active})
           maxY == SetMax({CellY(i) : i \in active})
           width   == maxX - minX + 1
           height  == maxY - minY + 1
           boxArea == width * height
           Outside(nx, ny) == nx < minX \/ ny < minY \/ nx > maxX \/ ny > maxY
           IsEdge(i) ==
             \E n \in {<<CellX(i) - 1, CellY(i)>>, <<CellX(i) + 1, CellY(i)>>,
                       <<CellX(i), CellY(i) - 1>>, <<CellX(i), CellY(i) + 1>>} :
               \/ Outside(n[1], n[2])
               \/ Leq(vector[CellAt(n[1], n[2])], 200)
           edgeCount == Cardinality({i \in active : IsEdge(i)})
           mirrorX(i) == GRID_SIZE - 1 - CellX(i)
           mirrorY(i) == maxY - (CellY(i) - minY)
           symmetryMatchesX ==
             Cardinality({i \in active : Gt(vector[CellAt(mirrorX(i), CellY(i))], 200)})
           symmetryMatchesY ==
             Cardinality({i \in active : Gt(vector[CellAt(CellX(i), mirrorY(i))], 200)})
           symmetryChecks == Cardinality(active)
       IN [fillRatio    |-> IF ink = NaN THEN NaN ELSE ink \div Cells,
           aspectRatio  |-> (width * 1000) \div Max(height, 1),
           compactness  |-> (Cardinality(active) * 1000) \div Max(boxArea, 1),
           symmetryX    |-> (symmetryMatchesX * 1000) \div Max(symmetryChecks, 1),
           symmetryY    |-> (symmetryMatchesY * 1000) \div Max(symmetryChecks, 1),
           edgeDensity  |-> (edgeCount * 1000) \div Max(Cardinality(active), 1),
           lengthNorm   |-> 0,
           straightness |-> 0]

extractShapeFeatures(vector) ==
  LET active == ActiveCells(vector)
      ink    == Sum(vector)
  IN IF active = {}
     THEN [fillRatio |-> 0, aspectRatio |-> 1000, compactness |-> 0,
           symmetryX |-> 1000, symmetryY |-> 1000, edgeDensity |-> 0,
           lengthNorm |-> 0, straightness |-> 0]
     ELSE
       LET minX == SetMin({CellX(i) : i \in active})
           minY == SetMin({CellY(i) : i \in active})
           maxX == SetMax({CellX(i) : i \in active})
           maxY == SetMax({CellY(i) : i \in active})
           width   == maxX - minX + 1
           height  == maxY - minY + 1
           boxArea == width * height
           Outside(nx, ny) == nx < minX \/ ny < minY \/ nx > maxX \/ ny > maxY
           IsEdge(i) ==
             \E n \in {<<CellX(i) - 1, CellY(i)>>, <<CellX(i) + 1, CellY(i)>>,
                       <<CellX(i), CellY(i) - 1>>, <<CellX(i), CellY(i) + 1>>} :
               \/ Outside(n[1], n[2])
               \/ Leq(vector[CellAt(n[1], n[2])], 200)
           edgeCount == Cardinality({i \in active : IsEdge(i)})
           mirrorX(i) == maxX - (CellX(i) - minX)
           mirrorY(i) == maxY - (CellY(i) - minY)
           symmetryMatchesX ==
             Cardinality({i \in active : Gt(vector[CellAt(mirrorX(i), CellY(i))], 200)})
           symmetryMatchesY ==
             Cardinality({i \in active : Gt(vector[CellAt(CellX(i), mirrorY(i))], 200)})
           symmetryChecks == Cardinality(active)
       IN [fillRatio    |-> IF ink = NaN THEN NaN ELSE ink \div Cells,
           aspectRatio  |-> (width * 1000) \div Max(height, 1),
           compactness  |-> (Cardinality(active) * 1000) \div Max(boxArea, 1),
           symmetryX    |-> (symmetryMatchesX * 1000) \div Max(symmetryChecks, 1),
           symmetryY    |-> (symmetryMatchesY * 1000) \div Max(symmetryChecks, 1),
           edgeDensity  |-> (edgeCount * 1000) \div Max(Cardinality(active), 1),
           lengthNorm   |-> 0,
           straightness |-> 0]

\* the polyline length of a stroke, in pixels
StrokeLength(stroke) ==
  SumFrom([i \in 1..(Len(stroke) - 1) |->
             Isqrt((stroke[i + 1].x - stroke[i].x) * (stroke[i + 1].x - stroke[i].x)
                 + (stroke[i + 1].y - stroke[i].y) * (stroke[i + 1].y - stroke[i].y))], 1)

\* directDistance / Math.max(length, 1) of a stroke, in thousandths
StrokeStraightness(stroke) ==
  LET last == stroke[Len(stroke)]
      dx   == last.x - stroke[1].x
      dy   == last.y - stroke[1].y
  IN (Isqrt(dx * dx + dy * dy) * 1000) \div Max(StrokeLength(stroke), 1)

extractStrokeFeatures(strokes) ==
  IF Len(strokes) = 0
  THEN [lengthNorm |-> 0, straightness |-> 0, strokeCount |-> 0]
  ELSE
    LET drawn == {k \in 1..Len(strokes) : ~(Len(strokes[k]) < 2)}
        lens  == [k \in 1..Len(strokes) |->
                    IF k \in drawn THEN StrokeLength(strokes[k]) ELSE 0]
        wsts  == [k \in 1..Len(strokes) |->
                    IF k \in drawn THEN StrokeStraightness(strokes[k]) * lens[k] ELSE 0]
        totalLength          == SumFrom(lens, 1)
        weightedStraightness == SumFrom(wsts, 1)
    \* diagonal = Math.sqrt(500 * 500 + 500 * 500) = 707.1
    IN [lengthNorm   |-> Min((totalLength * 10000) \div
                               Isqrt(100 * (CANVAS_SIZE * CANVAS_SIZE + CANVAS_SIZE * CANVAS_SIZE)),
                             1500),
        straightness |-> weightedStraightness \div Max(totalLength, 1),
        strokeCount  |-> Len(strokes) * 1000]

\* { ...extractShapeFeatures(vector), ...extractStrokeFeatures(strokes) }
combineFeatures(vector, strokes) ==
  extractStrokeFeatures(strokes) @@ extractShapeFeatures(vector)

\* one weighted squared difference of featureDistance, weight in tenths
Term(x, y, w10) ==
  LET delta == Sub(x, y)
  IN IF delta = NaN THEN NaN ELSE w10 * ((delta * delta) \div 10)

featureDistance(a, b) ==
  LET aspectA == Ln(a.aspectRatio)
      aspectB == Ln(b.aspectRatio)
      strokeCountA == Min(OrZero(a.strokeCount), 8000) \div 8
      strokeCountB == Min(OrZero(b.strokeCount), 8000) \div 8
  IN Sqrt(Sum(<<Term(a.fillRatio, b.fillRatio, 14),
                Term(aspectA, aspectB, 11),
                Term(a.compactness, b.compactness, 13),
                Term(a.symmetryX, b.symmetryX, 8),
                Term(a.symmetryY, b.symmetryY, 8),
                Term(a.edgeDensity, b.edgeDensity, 11),
                Term(a.lengthNorm, b.lengthNorm, 13),
                Term(a.straightness, b.straightness, 14),
                Term(strokeCountA, strokeCountB, 7)>>))

\* Euclidean distance of two vectors
distance(a, b) ==
  Sqrt(Sum([i \in 1..Len(a) |->
              LET d == Sub(a[i], b[i]) IN IF d = NaN THEN NaN ELSE d * d]))

\* a * b with NaN
Mul(a, b) == IF a = NaN \/ b = NaN THEN NaN ELSE a * b

\* cosineDistance without the check of the denominator: 1 - 0 / 0
cosineDistance_NoZeroCheck(a, b) ==
  LET dot   == Sum([i \in 1..Len(a) |-> Mul(a[i], b[i])])
      normA == Sum([i \in 1..Len(a) |-> Mul(a[i], a[i])])
      normB == Sum([i \in 1..Len(a) |-> Mul(b[i], b[i])])
  IN IF dot = NaN \/ normA = NaN \/ normB = NaN THEN NaN
     ELSE LET denom == Isqrt(normA) * Isqrt(normB)
              k == IF denom > 2000000 THEN 128 ELSE 1
          IN IF denom = 0 THEN NaN
             ELSE 1000 - ((dot \div k) * 1000) \div (denom \div k)

cosineDistance(a, b) ==
  LET dot   == Sum([i \in 1..Len(a) |-> Mul(a[i], b[i])])
      normA == Sum([i \in 1..Len(a) |-> Mul(a[i], a[i])])
      normB == Sum([i \in 1..Len(a) |-> Mul(b[i], b[i])])
  IN IF dot = NaN \/ normA = NaN \/ normB = NaN THEN NaN
     ELSE LET denom == Isqrt(normA) * Isqrt(normB)
              \* keeps dot * 1000 below 2^31
              k == IF denom > 2000000 THEN 128 ELSE 1
          IN IF denom = 0 THEN 1000
             ELSE 1000 - ((dot \div k) * 1000) \div (denom \div k)

(***************************************************************************)
(* Samples.  A sample in memory is a record                                *)
(*   [label, vector, hasFeatures, features, ts]                            *)
(* where hasFeatures is FALSE when the object has no (truthy) features     *)
(* field, and a missing key of the features object has the value NaN.      *)
(***************************************************************************)
FeatureKeys ==
  {"fillRatio", "aspectRatio", "compactness", "symmetryX", "symmetryY",
   "edgeDensity", "lengthNorm", "straightness", "strokeCount"}

\* item.features || combineFeatures(item.vector, [])
ItemFeatures(item) ==
  IF item.hasFeatures THEN item.features ELSE combineFeatures(item.vector, <<>>)

\* the labels of a sequence of records, in order of first appearance
RECURSIVE LabelsInOrder(_, _, _)
LabelsInOrder(s, i, acc) ==
  IF i > Len(s) THEN acc
  ELSE LabelsInOrder(s, i + 1,
         IF \E j \in 1..Len(acc) : acc[j] = s[i].label THEN acc
         ELSE Append(acc, s[i].label))

\* x / count with NaN
DivBy(x, count) == IF x = NaN THEN NaN ELSE x \div count

\* bucket.vectorSum[i] += item.vector[i], over the samples ds[k] with k in
\* members and k >= from
RECURSIVE VectorSum(_, _, _, _)
VectorSum(ds, members, from, acc) ==
  IF from > Len(ds) THEN acc
  ELSE VectorSum(ds, members, from + 1,
         IF from \in members
         THEN Table([i \in 1..Cells |-> Add(acc[i], ds[from].vector[i])])
         ELSE acc)

\* a bucket that keeps the vector and features of its first sample instead
\* of the means
Prototype_FirstSample(ds, label, members) ==
  LET first == CHOOSE k \in members : \A j \in members : k <= j
  IN [label    |-> label,
      count    |-> Cardinality(members),
      vector   |-> ds[first].vector,
      features |-> Table([key \in FeatureKeys |->
                      OrZero(ItemFeatures(ds[first])[key])])]

\* the bucket of one label: the samples ds[k] with k in members
Prototype(ds, label, members) ==
  LET count == Cardinality(members)
      feats == Table([k \in members |-> ItemFeatures(ds[k])])
  IN [label    |-> label,
      count    |-> count,
      vector   |-> LET vectorSum == VectorSum(ds, members, 1, [i \in 1..Cells |-> 0])
                   IN Table([i \in 1..Cells |-> DivBy(vectorSum[i], count)]),
      features |-> Table([key \in FeatureKeys |->
                      DivBy(Sum([k \in 1..Len(ds) |->
                                   IF k \in members THEN OrZero(feats[k][key]) ELSE 0]),
                            count)])]

\* a new bucket for every sample: byLabel.has(item.label) never consulted
buildPrototypes_PerSample(ds) ==
  Table([n \in 1..Len(ds) |-> Prototype(ds, ds[n].label, {n})])

buildPrototypes(ds) ==
  LET labels == LabelsInOrder(ds, 1, <<>>)
  IN Table([n \in 1..Len(labels) |->
              Prototype(ds, labels[n], {k \in 1..Len(ds) : ds[k].label = labels[n]})])

(***************************************************************************)
(* The classifier of guessDrawing.                                         *)
(***************************************************************************)
\* pixelDist * wp + angularDist * wa + shapeDist * ws, weights in tenths
Blend(pixelDist, angularDist, shapeDist, wp, wa, ws) ==
  IF pixelDist = NaN \/ angularDist = NaN \/ shapeDist = NaN THEN NaN
  ELSE (pixelDist * wp + angularDist * wa + shapeDist * ws) \div 10

\* distance(vec, v) / Math.sqrt(vec.length)
PixelDist(vec, v) == DivBy(distance(vec, v), Isqrt(Len(vec)))

ScoreExamples(vec, features, dataset) ==
  Table([k \in 1..Len(dataset) |->
     [label |-> dataset[k].label,
      dist  |-> Blend(PixelDist(vec, dataset[k].vector),
                      cosineDistance(vec, dataset[k].vector),
                      featureDistance(features, ItemFeatures(dataset[k])),
                      19, 14, 17)]])

\* Math.min(proto.count, 12) / 120
SampleBonus(count) == (Min(count, 12) * 1000) \div 120

ScorePrototypes(vec, features, protos) ==
  Table([k \in 1..Len(protos) |->
     [label |-> protos[k].label,
      dist  |-> Sub(Blend(PixelDist(vec, protos[k].vector),
                          cosineDistance(vec, protos[k].vector),
                          featureDistance(features, protos[k].features),
                          16, 12, 15),
                    SampleBonus(protos[k].count))]])

\* the permutations of 1..n, as sequences
RECURSIVE Perms(_)
Perms(n) ==
  IF n = 0 THEN {<<>>}
  ELSE {[i \in 1..n |-> IF i < k THEN p[i] ELSE IF i = k THEN n ELSE p[i - 1]] :
          p \in Perms(n - 1), k \in 1..n}

\* insertion of index k into the sorted index list idx (stable: after equals)
RECURSIVE InsertIdx(_, _, _, _)
InsertIdx(key, idx, k, pos) ==
  IF pos > Len(idx) \/ key[k] < key[idx[pos]]
  THEN SubSeq(idx, 1, pos - 1) \o <<k>> \o SubSeq(idx, pos, Len(idx))
  ELSE InsertIdx(key, idx, k, pos + 1)

RECURSIVE StableOrder(_, _, _)
StableOrder(key, k, idx) ==
  IF k > Len(key) THEN idx
  ELSE StableOrder(key, k + 1, InsertIdx(key, idx, k, 1))

\* The orders Array.prototype.sort can leave the indices of key in, for a
\* comparator that is the difference of two keys: the stable ascending
\* order, or, when a key is NaN (the comparator is then inconsistent and
\* the order implementation-defined), any order.
SortOrders(key) ==
  IF \E i \in 1..Len(key) : key[i] = NaN
  THEN Perms(Len(key))
  ELSE {StableOrder(key, 1, <<>>)}

\* weight / Math.max(dist, 0.05)
VoteWeight(weight, dist) ==
  IF dist = NaN THEN NaN ELSE (weight * 1000) \div Max(dist, 50)

\* votes.set(label, (votes.get(label) || 0) + weight) on a Map kept as a
\* sequence of [label, score] in insertion order
AddVote(votes, label, weight) ==
  IF \E j \in 1..Len(votes) : votes[j].label = label
  THEN [j \in 1..Len(votes) |->
          IF votes[j].label = label
          THEN [label |-> label, score |-> Add(OrZero(votes[j].score), weight)]
          ELSE votes[j]]
  ELSE Append(votes, [label |-> label, score |-> Add(0, weight)])

RECURSIVE AddVotes(_, _, _, _)
AddVotes(votes, scored, weight, i) ==
  IF i > Len(scored) THEN votes
  ELSE AddVotes(AddVote(votes, scored[i].label, VoteWeight(weight, scored[i].dist)),
                scored, weight, i + 1)

\* slice(0, 8) for slice(0, 9)
Nearest_OneFewer(scored, ord) ==
  [i \in 1..Min(NEAREST - 1, Len(scored)) |-> scored[ord[i]]]

\* the first NEAREST entries of scored taken in the order ord
Nearest(scored, ord) ==
  [i \in 1..Min(NEAREST, Len(scored)) |-> scored[ord[i]]]

\* votes of the nearest examples, then of every prototype
Votes(nearest, scoredPrototypes) ==
  AddVotes(AddVotes(<<>>, nearest, 1000, 1), scoredPrototypes, 900, 1)

\* Math.max(1, Math.min(99, Math.round((certainty * 0.65 + margin * 0.25
\*   + prototypeWeight * 0.1) * 100)))
Confidence(certainty, margin, prototypeWeight) ==
  IF certainty = NaN \/ margin = NaN THEN NaN
  ELSE Max(1, Min(99, (certainty * 65 + margin * 25 + prototypeWeight * 10 + 500) \div 1000))

\* Lines 853-868: the outcome of a guess from the ranked votes.
Verdict(ranked, protos) ==
  LET bestLabel   == IF Len(ranked) > 0 THEN ranked[1].label ELSE "unknown"
      bestScore   == IF Len(ranked) > 0 THEN ranked[1].score ELSE 0
      secondScore == IF Len(ranked) > 1 THEN OrZero(ranked[2].score) ELSE 0
      voteTotal   == Sum([i \in 1..Len(ranked) |-> ranked[i].score])
      margin      == Sub(bestScore, secondScore)
      certainty   == IF Gt(voteTotal, 0) THEN (bestScore * 1000) \div voteTotal ELSE 0
      prototypeWeight == Min(Len(protos) * 100, 1000)
      conf        == Confidence(certainty, margin, prototypeWeight)
      lowConfidence == (conf # NaN /\ conf < 60) \/ (margin # NaN /\ margin < 120)
  IN [guess         |-> IF lowConfidence THEN "unknown" ELSE bestLabel,
      confidence    |-> conf,
      statusMessage |-> IF lowConfidence
                        THEN "Not confident enough to guess yet - try cleaner strokes."
                        ELSE "",
      bestLabel     |-> bestLabel,
      margin        |-> margin,
      lowConfidence |-> lowConfidence,
      ranked        |-> ranked,
      classified    |-> TRUE]

(***************************************************************************)
(* The persisted store.  The value under STORAGE_KEY is a record           *)
(*   [kind, items]                                                         *)
(* kind: "absent" (getItem returns null), "empty" (the empty string),      *)
(* "denied" (localStorage throws on access), "garbage" (JSON.parse         *)
(* throws), "scalar" (JSON that is not an array), "array".  An item of an  *)
(* array is the JSON of one entry:                                         *)
(*   [isObject, labelIsString, label, vectorIsArray, vector,               *)
(*    hasFeatures, features, ts]                                           *)
(* isObject is FALSE for null, a falsy item.                               *)
(***************************************************************************)
\* JSON.stringify of one sample
ToJSON(sample) ==
  [isObject |-> TRUE, labelIsString |-> TRUE, label |-> sample.label,
   vectorIsArray |-> TRUE, vector |-> sample.vector,
   hasFeatures |-> sample.hasFeatures, features |-> sample.features,
   ts |-> sample.ts]

\* the object JSON.parse yields for an item that the filter of loadDataset kept
FromJSON(item) ==
  [label |-> item.label, vector |-> item.vector,
   hasFeatures |-> item.hasFeatures, features |-> item.features, ts |-> item.ts]

\* item && typeof item.label === "string" && Array.isArray(item.vector)
\*   && item.vector.length === GRID_SIZE * GRID_SIZE
Accepts(item) ==
  /\ item.isObject
  /\ item.labelIsString
  /\ item.vectorIsArray
  /\ Len(item.vector) = GRID_SIZE * GRID_SIZE

RECURSIVE Filter(_, _)
\* parsed.filter(...), mapped to the objects kept
Filter(items, i) ==
  IF i > Len(items) THEN <<>>
  ELSE (IF Accepts(items[i]) THEN <<FromJSON(items[i])>> ELSE <<>>)
       \o Filter(items, i + 1)

\* The body of the try block of loadDataset: [threw, value].
LoadTry(st) ==
  IF st.kind \in {"denied", "garbage"} THEN [threw |-> TRUE, value |-> <<>>]
  ELSE IF st.kind \in {"absent", "empty"} THEN [threw |-> FALSE, value |-> <<>>]
  ELSE IF st.kind # "array" THEN [threw |-> FALSE, value |-> <<>>]
  ELSE [threw |-> FALSE, value |-> Filter(st.items, 1)]

\* loadDataset without its catch clause
loadDataset_NoCatch(st) == LoadTry(st)

\* loadDataset: try { ... } catch { return []; }
loadDataset(st) ==
  IF LoadTry(st).threw THEN [threw |-> FALSE, value |-> <<>>] ELSE LoadTry(st)

\* saveDataset(dataset) for saveDataset(updated): the write of the array
\* without the sample just created
saveDataset_Stale(dataset) ==
  [kind |-> "array",
   items |-> [k \in 1..(Len(dataset) - 1) |-> ToJSON(dataset[k])]]

\* what localStorage holds after saveDataset(dataset) went through
saveDataset(dataset) ==
  [kind |-> "array", items |-> [k \in 1..Len(dataset) |-> ToJSON(dataset[k])]]

(***************************************************************************)
(* The canvas, kept at the resolution of the grid: one gray level (0..255) *)
(* per cell, 255 being the white background.                               *)
(***************************************************************************)
White == 255

\* The gray level of a cell a pen line crosses: a line of lineWidth 14 and
\* colour #111827 (mean channel value 26) covers 14/31 of a cell of
\* 500/16 pixels.
PenGray == 255 - (14 * (255 - 26)) \div 31

BlankCanvas == [i \in 1..Cells |-> White]

\* vectorizeCanvas: 1 - gray / 255 for every cell
vectorizeCanvas(cv) == Table([i \in 1..Cells |-> 1000 - (cv[i] * 1000) \div 255])

\* the cell of a canvas pixel
CellOf(x, y) ==
  CellAt(Min(GRID_SIZE - 1, (x * GRID_SIZE) \div CANVAS_SIZE),
         Min(GRID_SIZE - 1, (y * GRID_SIZE) \div CANVAS_SIZE))

\* the cells the segment from p to q crosses
SegmentCells(p, q) ==
  {CellOf(p.x + (t * (q.x - p.x)) \div (2 * GRID_SIZE),
          p.y + (t * (q.y - p.y)) \div (2 * GRID_SIZE)) : t \in 0..(2 * GRID_SIZE)}

\* the cells of the current path of the context (since beginPath)
PathCells(pth) ==
  UNION {SegmentCells(pth[i], pth[i + 1]) : i \in 1..(Len(pth) - 1)}

\* ctx.stroke(): the whole current path is stroked, in the pen colour or,
\* when erasing, in white
Stroke(cv, pth, erasing) ==
  LET cells == PathCells(pth)
  IN Table([i \in 1..Cells |->
              IF i \in cells
              THEN (IF erasing THEN White ELSE Min(cv[i], PenGray))
              ELSE cv[i]])

(***************************************************************************)
(* The meaningful-drawing gate.                                            *)
(***************************************************************************)
\* the gate with totalInk >= 5 for totalInk > 5
getDrawingStats_Lax(vec, strokes) ==
  LET totalInk     == Sum(vec)
      activePixels == Cardinality({i \in 1..Len(vec) : vec[i] > 180})
      drawnStrokeCount ==
        Cardinality({k \in 1..Len(strokes) : Len(strokes[k]) > 1})
  IN [vec |-> vec,
      totalInk |-> totalInk,
      activePixels |-> activePixels,
      drawnStrokeCount |-> drawnStrokeCount,
      hasMeaningfulDrawing |->
        totalInk >= 5000 /\ activePixels > 8 /\ drawnStrokeCount > 0]

getDrawingStats(vec, strokes) ==
  LET totalInk     == Sum(vec)
      activePixels == Cardinality({i \in 1..Len(vec) : vec[i] > 180})
      drawnStrokeCount ==
        Cardinality({k \in 1..Len(strokes) : Len(strokes[k]) > 1})
  IN [vec |-> vec,
      totalInk |-> totalInk,
      activePixels |-> activePixels,
      drawnStrokeCount |-> drawnStrokeCount,
      hasMeaningfulDrawing |->
        totalInk > 5000 /\ activePixels > 8 /\ drawnStrokeCount > 0]

(***************************************************************************)
(* guessDrawing: the set of outcomes a guess can have (one, unless a sort  *)
(* meets NaN).  An outcome is the displayed guess, confidence and message  *)
(* with the quantities they were decided from.                             *)
(***************************************************************************)
NeedTraining == "Need training data first"

\* the keys of a descending sort by score
Negated(votes) ==
  [i \in 1..Len(votes) |-> IF votes[i].score = NaN THEN NaN ELSE 0 - votes[i].score]

DrawFirst == "Draw something first - erased/blank canvas cannot be guessed."

\* an early return of guessDrawing
Sentinel(g, msg) ==
  [guess |-> g, confidence |-> 0, statusMessage |-> msg, bestLabel |-> "unknown",
   margin |-> 0, lowConfidence |-> FALSE, ranked |-> <<>>, classified |-> FALSE]

Classify(vec, strokes, dataset, protos) ==
  LET features == combineFeatures(vec, strokes)
      scoredExamples   == ScoreExamples(vec, features, dataset)
      scoredPrototypes == ScorePrototypes(vec, features, protos)
      VotesFor(ord) == Votes(Nearest(scoredExamples, ord), scoredPrototypes)
  IN UNION {
       {Verdict([i \in 1..Len(VotesFor(ord)) |-> VotesFor(ord)[r[i]]], protos) :
          r \in SortOrders(Negated(VotesFor(ord)))} :
       ord \in SortOrders([k \in 1..Len(scoredExamples) |-> scoredExamples[k].dist])}

\* guessDrawing with the empty-dataset check ahead of the gate
guessDrawing_DatasetFirst(cv, strokes, dataset, protos) ==
  LET drawingStats == getDrawingStats(vectorizeCanvas(cv), strokes)
  IN IF Len(dataset) = 0
     THEN {Sentinel(NeedTraining, "Train me with a few drawings before guessing.")}
     ELSE IF ~drawingStats.hasMeaningfulDrawing
     THEN {Sentinel("unknown", DrawFirst)}
     ELSE Classify(drawingStats.vec, strokes, dataset, protos)

\* guessDrawing without the empty-dataset check
guessDrawing_NoEmptyCheck(cv, strokes, dataset, protos) ==
  LET drawingStats == getDrawingStats(vectorizeCanvas(cv), strokes)
  IN IF ~drawingStats.hasMeaningfulDrawing
     THEN {Sentinel("unknown", DrawFirst)}
     ELSE Classify(drawingStats.vec, strokes, dataset, protos)

guessDrawing(cv, strokes, dataset, protos) ==
  LET drawingStats == getDrawingStats(vectorizeCanvas(cv), strokes)
  IN IF ~drawingStats.hasMeaningfulDrawing
     THEN {Sentinel("unknown", DrawFirst)}
     ELSE IF Len(dataset) = 0
     THEN {Sentinel(NeedTraining, "Train me with a few drawings before guessing.")}
     ELSE Classify(drawingStats.vec, strokes, dataset, protos)

(***************************************************************************)
(* The session: the state of the App component.                            *)
(***************************************************************************)
VARIABLES
  store,          \* the value under STORAGE_KEY in localStorage
  peer,           \* useState: the samples in memory of the session that
                  \* another tab runs on the same localStorage
  dataset,        \* useState: the samples in memory
  snapshot,       \* the array that was the dataset before the last setDataset,
                  \* as a holder of it reads it now
  prototypes,     \* useMemo: the prototypes of the rendered dataset
  prompt,         \* useState: the current prompt
  guess,          \* useState: the displayed guess
  confidence,     \* useState: the displayed confidence
  statusMessage,  \* useState: the advisory message
  isErasing,      \* useState: eraser selected
  isDrawing,      \* isDrawingRef
  strokes,        \* strokesRef: the recorded strokes
  activeStroke,   \* activeStrokeRef: index in strokes of the active stroke, 0 for null
  path,           \* the current path of the canvas context
  canvas,         \* the canvas
  clock,          \* Date.now(), as the number of samples created
  crashed,        \* an exception escaped the initial load
  last,           \* the handler that last wrote the display (guess, confidence,
                  \* statusMessage) or the dataset and, for a guess, what it
                  \* decided from
  drawingRevision,      \* drawingRevisionRef of the timer-polled version
  lastGuessedRevision,  \* lastGuessedRevisionRef of the timer-polled version
  timer           \* the time left until the interval of the timer-polled
                  \* version fires, in steps of 300 / TimerSteps ms

\* the refs and the interval that only the timer-polled version has
polled == <<drawingRevision, lastGuessedRevision, timer>>

vars == <<store, peer, dataset, snapshot, prototypes, prompt, guess, confidence, statusMessage, isErasing,
          isDrawing, strokes, activeStroke, path, canvas, clock, crashed, last, polled>>

\* a memo that is never computed again: useMemo(..., [])
useMemo_Once(memo, deps, rendered) == memo

\* useMemo(() => buildPrototypes(dataset), [dataset]) in the render that
\* follows a handler: memo was computed for the dataset deps, and the
\* dataset rendered now is rendered
useMemo(memo, deps, rendered) ==
  IF rendered = deps THEN memo ELSE buildPrototypes(rendered)

\* the pointer positions of the model
Points == {[x |-> 15, y |-> 15], [x |-> 484, y |-> 15]}

Op(name) ==
  [op |-> name, margin |-> 0, lowConfidence |-> FALSE, ranked |-> <<>>,
   classified |-> FALSE]

\* array.slice(-n)
TakeLast(s, n) == IF Len(s) <= n THEN s ELSE SubSeq(s, Len(s) - n + 1, Len(s))

\* a features object with no keys
NoKeys == [key \in FeatureKeys |-> NaN]

\* startDrawing with unshift for push
startDrawing_Unshift(point) ==
  /\ ~crashed
  /\ isDrawing' = TRUE
  /\ path' = <<point>>
  /\ strokes' = <<<<point>>>> \o strokes
  /\ activeStroke' = 1
  /\ UNCHANGED <<store, peer, polled, dataset, snapshot, prototypes, prompt, guess, confidence, statusMessage,
                 isErasing, canvas, clock, crashed, last>>

startDrawing(point) ==
  /\ ~crashed
  /\ isDrawing' = TRUE
  /\ path' = <<point>>
  /\ strokes' = Append(strokes, <<point>>)
  /\ activeStroke' = Len(strokes) + 1
  /\ UNCHANGED <<store, peer, polled, dataset, snapshot, prototypes, prompt, guess, confidence, statusMessage,
                 isErasing, canvas, clock, crashed, last>>

draw(point) ==
  /\ ~crashed
  /\ isDrawing
  /\ path' = Append(path, point)
  /\ canvas' = Stroke(canvas, Append(path, point), isErasing)
  /\ strokes' = IF activeStroke = 0 THEN strokes
                ELSE [strokes EXCEPT ![activeStroke] = Append(@, point)]
  /\ UNCHANGED <<store, peer, polled, dataset, snapshot, prototypes, prompt, guess, confidence, statusMessage,
                 isErasing, isDrawing, activeStroke, clock, crashed, last>>

\* the release handler without stopDrawing(): onMouseUp={guessDrawing}
stopDrawingAndGuess_GuessOnly ==
  /\ ~crashed
  /\ UNCHANGED <<store, peer, polled, dataset, snapshot, prototypes, prompt, isErasing, isDrawing, strokes,
                 activeStroke, path, canvas, clock, crashed>>
  /\ \E r \in guessDrawing(canvas, strokes, dataset, prototypes) :
       /\ guess' = r.guess
       /\ confidence' = r.confidence
       /\ statusMessage' = r.statusMessage
       /\ last' = [op |-> "guess", margin |-> r.margin,
                   lowConfidence |-> r.lowConfidence, ranked |-> r.ranked,
                   classified |-> r.classified]

\* stopDrawing() then guessDrawing()
stopDrawingAndGuess ==
  /\ ~crashed
  /\ isDrawing' = FALSE
  /\ activeStroke' = IF isDrawing THEN 0 ELSE activeStroke
  /\ UNCHANGED <<store, peer, polled, dataset, snapshot, prototypes, prompt, isErasing, strokes, path, canvas,
                 clock, crashed>>
  /\ \E r \in guessDrawing(canvas, strokes, dataset, prototypes) :
       /\ guess' = r.guess
       /\ confidence' = r.confidence
       /\ statusMessage' = r.statusMessage
       /\ last' = [op |-> "guess", margin |-> r.margin,
                   lowConfidence |-> r.lowConfidence, ranked |-> r.ranked,
                   classified |-> r.classified]

\* clearCanvas that also draws a new prompt: setPrompt(randomPrompt())
clearCanvas_NewPrompt ==
  /\ ~crashed
  /\ canvas' = BlankCanvas
  /\ strokes' = <<>>
  /\ activeStroke' = 0
  /\ guess' = "unknown"
  /\ confidence' = 0
  /\ statusMessage' = ""
  /\ \E p \in OBJECTS : prompt' = p
  /\ last' = Op("clear")
  /\ UNCHANGED <<store, peer, polled, dataset, snapshot, prototypes, isErasing, isDrawing, path, clock, crashed>>

clearCanvas ==
  /\ ~crashed
  /\ canvas' = BlankCanvas
  /\ strokes' = <<>>
  /\ activeStroke' = 0
  /\ guess' = "unknown"
  /\ confidence' = 0
  /\ statusMessage' = ""
  /\ last' = Op("clear")
  /\ UNCHANGED <<store, peer, polled, dataset, snapshot, prototypes, prompt, isErasing, isDrawing, path, clock, crashed>>

\* a sample labelled with the displayed guess
NewSample_LabelledWithGuess(vec) ==
  [label |-> guess, vector |-> vec, hasFeatures |-> TRUE,
   features |-> combineFeatures(vec, strokes), ts |-> clock]

\* the sample saveDrawing creates
NewSample(vec) ==
  [label |-> prompt, vector |-> vec, hasFeatures |-> TRUE,
   features |-> combineFeatures(vec, strokes), ts |-> clock]

\* slice(0, 2000) for slice(-2000)
Updated_KeepsOldest(ds, sample) ==
  IF Len(ds) + 1 <= Cap THEN Append(ds, sample)
  ELSE SubSeq(Append(ds, sample), 1, Cap)

\* [...dataset, sample].slice(-2000)
\* dataset.push(sample) for [...dataset, sample]
Spread_Push(ds, sample) ==
  [created |-> Append(ds, sample), source |-> Append(ds, sample)]

\* [...ds, sample]: the array it creates, and ds as it is afterwards
Spread(ds, sample) == [created |-> Append(ds, sample), source |-> ds]

Updated(ds, sample) == TakeLast(Spread(ds, sample).created, Cap)

NopeDrawFirst ==
  "Nope - draw first. Blank/erased canvas won't be saved to training."

\* Lines 879-881: the save of an attempt that is not meaningful.
SaveRejected ==
  /\ statusMessage' = NopeDrawFirst
  /\ last' = Op("saveRejected")
  /\ UNCHANGED <<store, peer, polled, dataset, snapshot, prototypes, prompt, guess, confidence, strokes,
                 activeStroke, canvas, clock>>

\* Lines 884-891: the save of a meaningful attempt.
SaveCommitted(accepted, updated) ==
  /\ clock' = clock + 1
  /\ peer' = peer
  /\ UNCHANGED polled
  /\ dataset' = updated
  /\ snapshot' = Spread(dataset, updated[Len(updated)]).source
  /\ prototypes' = useMemo(prototypes, dataset, updated)
  /\ IF accepted /\ store.kind # "denied"
     THEN /\ store' = saveDataset(updated)
          /\ \E p \in OBJECTS : prompt' = p
          /\ canvas' = BlankCanvas
          /\ strokes' = <<>>
          /\ activeStroke' = 0
          /\ guess' = "unknown"
          /\ confidence' = 0
          /\ statusMessage' = "Saved to training set. Nice."
          /\ last' = Op("save")
     ELSE \* setItem threw: the handler stops after setDataset
          /\ last' = Op("saveThrew")
          /\ UNCHANGED <<store, prompt, canvas, strokes, activeStroke,
                         guess, confidence, statusMessage>>

\* saveDrawing whose rejection also clears the canvas
saveDrawing_ClearsOnReject(accepted) ==
  LET drawingStats == getDrawingStats(vectorizeCanvas(canvas), strokes)
      updated      == Updated(dataset, NewSample(drawingStats.vec))
  IN /\ ~crashed
     /\ UNCHANGED <<isErasing, isDrawing, path, crashed>>
     /\ IF ~drawingStats.hasMeaningfulDrawing
        THEN /\ accepted
             /\ statusMessage' = NopeDrawFirst
             /\ canvas' = BlankCanvas
             /\ strokes' = <<>>
             /\ activeStroke' = 0
             /\ guess' = "unknown"
             /\ confidence' = 0
             /\ last' = Op("saveRejected")
             /\ UNCHANGED <<store, peer, polled, dataset, snapshot, prototypes, prompt, clock>>
        ELSE SaveCommitted(accepted, updated)

\* saveDrawing; accepted: localStorage.setItem does not throw
saveDrawing(accepted) ==
  LET drawingStats == getDrawingStats(vectorizeCanvas(canvas), strokes)
      updated      == Updated(dataset, NewSample(drawingStats.vec))
  IN /\ ~crashed
     /\ UNCHANGED <<isErasing, isDrawing, path, crashed>>
     /\ IF ~drawingStats.hasMeaningfulDrawing
        THEN accepted /\ SaveRejected
        ELSE SaveCommitted(accepted, updated)

\* setIsErasing(b); setting the value the state already has re-renders nothing
setIsErasing(b) ==
  /\ ~crashed
  /\ isErasing # b
  /\ isErasing' = b
  /\ UNCHANGED <<store, peer, polled, dataset, snapshot, prototypes, prompt, guess, confidence, statusMessage,
                 isDrawing, strokes, activeStroke, path, canvas, clock, crashed,
                 last>>

(***************************************************************************)
(* The stores a session can start from.                                    *)
(***************************************************************************)
\* the vector of a line drawn along the path pth
LineVector(pth) == vectorizeCanvas(Stroke(BlankCanvas, pth, FALSE))

RowPath == <<[x |-> 15, y |-> 15], [x |-> 484, y |-> 15]>>

ColumnPath == <<[x |-> 484, y |-> 15], [x |-> 484, y |-> 484]>>

\* an entry as the versions before the feature extractor stored it:
\* { label, vector, ts }
PlainItem(label, pth, ts) ==
  ToJSON([label |-> label, vector |-> LineVector(pth), hasFeatures |-> FALSE,
          features |-> NoKeys, ts |-> ts])

\* an entry with its features, as saveDrawing stores it
FullItem(label, pth, ts) ==
  ToJSON([label |-> label, vector |-> LineVector(pth), hasFeatures |-> TRUE,
          features |-> combineFeatures(LineVector(pth), <<pth>>), ts |-> ts])

\* an entry without a label
NoLabelItem == [PlainItem("cat", RowPath, 0) EXCEPT !.labelIsString = FALSE]

\* an entry whose features object has no keys: features: {}
NoKeysItem(label) == [PlainItem(label, RowPath, 0) EXCEPT !.hasFeatures = TRUE]

\* an entry whose vector holds GRID_SIZE * GRID_SIZE strings
TextVectorItem(label) ==
  [PlainItem(label, RowPath, 0) EXCEPT !.vector = [i \in 1..Cells |-> NaN]]

\* an entry whose vector is too short
ShortVectorItem ==
  [PlainItem("cat", RowPath, 0) EXCEPT !.vector = [i \in 1..(Cells - 1) |-> 0]]

NullItem == [PlainItem("cat", RowPath, 0) EXCEPT !.isObject = FALSE]

NoStore(kind) == [kind |-> kind, items |-> <<>>]

ArrayStore(items) == [kind |-> "array", items |-> items]

\* entry k of a store of Cap valid entries, oldest first
StoredItem(k) ==
  IF k = 1 THEN [NoKeysItem("cat") EXCEPT !.ts = 0 - Cap]
  ELSE IF k % 2 = 0 THEN FullItem("dog", ColumnPath, k - Cap - 1)
  ELSE PlainItem("cat", RowPath, k - Cap - 1)

\* a store of one entry that load drops and Cap entries that it keeps
FullStore == ArrayStore(<<NoLabelItem>> \o [k \in 1..Cap |-> StoredItem(k)])

\* a store whose only entry has a vector of strings
TextStore == ArrayStore(<<TextVectorItem("cat")>>)

\* the stores a session of the model starts from
InitialStores == {NoStore("absent"), FullStore, TextStore}

\* The state after construction: useState(loadDataset), useState(randomPrompt)
\* and the initial values of the other hooks, on the store st, with the
\* canvas cv and the strokes sk.
Start(st, cv, sk) ==
  /\ store = st
  /\ peer = loadDataset(st).value
  /\ dataset = loadDataset(st).value
  /\ snapshot = loadDataset(st).value
  /\ prototypes = buildPrototypes(loadDataset(st).value)
  /\ crashed = loadDataset(st).threw
  /\ prompt \in OBJECTS
  /\ guess = "unknown"
  /\ confidence = 0
  /\ statusMessage = ""
  /\ isErasing = FALSE
  /\ isDrawing = FALSE
  /\ strokes = sk
  /\ activeStroke = 0
  /\ path = <<>>
  /\ canvas = cv
  /\ clock = 0
  /\ last = Op("load")
  /\ drawingRevision = 0
  /\ lastGuessedRevision = 0 - 1
  /\ timer = TimerSteps

Init == \E st \in InitialStores : Start(st, BlankCanvas, <<>>)

\* The events of a session, within the bounds of the model.
Next ==
  \/ \E point \in Points : Len(strokes) < MaxStrokes /\ startDrawing(point)
  \/ \E point \in Points : Len(path) < MaxPoints /\ draw(point)
  \/ stopDrawingAndGuess
  \/ clearCanvas
  \/ \E accepted \in BOOLEAN : clock < MaxSaves /\ saveDrawing(accepted)
  \/ \E b \in BOOLEAN : setIsErasing(b)

Spec == Init /\ [][Next]_vars

(***************************************************************************)
(* Startup.  The page is loaded, and loaded again, on any store made of    *)
(* at most MaxItems entries of the shapes below or holding no array; a     *)
(* store of more than Cap entries is what another tab or another version   *)
(* of the page can leave.                                                  *)
(***************************************************************************)
ItemShapes ==
  {PlainItem("cat", RowPath, 0), FullItem("dog", ColumnPath, 0), NoLabelItem,
   NoKeysItem("cat"), TextVectorItem("cat"), ShortVectorItem, NullItem}

LoadStores ==
  {NoStore(kind) : kind \in {"absent", "empty", "denied", "garbage", "scalar"}}
  \cup {ArrayStore(items) :
          items \in UNION {[1..n -> ItemShapes] : n \in 0..MaxItems}}

InitLoad == \E st \in LoadStores : Start(st, BlankCanvas, <<>>)

\* the page is loaded again: the component is constructed anew on the store
reload ==
  /\ dataset' = loadDataset(store).value
  /\ snapshot' = loadDataset(store).value
  /\ prototypes' = buildPrototypes(loadDataset(store).value)
  /\ crashed' = loadDataset(store).threw
  /\ \E p \in OBJECTS : prompt' = p
  /\ guess' = "unknown"
  /\ confidence' = 0
  /\ statusMessage' = ""
  /\ isErasing' = FALSE
  /\ isDrawing' = FALSE
  /\ strokes' = <<>>
  /\ activeStroke' = 0
  /\ path' = <<>>
  /\ canvas' = BlankCanvas
  /\ last' = Op("load")
  /\ UNCHANGED <<store, peer, polled, clock>>

NextLoad == reload

SpecLoad == InitLoad /\ [][NextLoad]_vars

(***************************************************************************)
(* The gate.  An attempt is a grid of n1 cells of gray level g1 and n2     *)
(* cells of gray level g2 on white, with a list of strokes; a guess        *)
(* applies the gate to it.  Gray 26 is a cell the pen covers (intensity    *)
(* 0.899), gray 204 is intensity 0.2, gray 210 is 0.177 (ink below the     *)
(* 0.18 of an active cell).                                                *)
(***************************************************************************)
GateCanvas(n1, g1, n2, g2) ==
  [i \in 1..Cells |->
     IF i <= n1 THEN g1 ELSE IF i <= n1 + n2 THEN g2 ELSE White]

GateStrokes ==
  {<<>>,
   <<<<[x |-> 15, y |-> 15]>>>>,
   <<RowPath>>,
   <<<<[x |-> 15, y |-> 15]>>, RowPath \o <<[x |-> 484, y |-> 484]>>>>}

InitGate ==
  \E n1 \in 0..MaxInked, g1 \in {26, 204}, n2 \in {0, 1}, sk \in GateStrokes :
     Start(NoStore("absent"), GateCanvas(n1, g1, n2, 210), sk)

NextGate == stopDrawingAndGuess

SpecGate == InitGate /\ [][NextGate]_vars

(***************************************************************************)
(* One attempt.  The canvas holds a grid that the gate rejects (no ink, 8  *)
(* covered cells, faint ink) or accepts (9 covered cells, MaxInked cells   *)
(* of intensity 0.2), with a list of strokes, over an empty dataset, a     *)
(* full one or one beyond the cap; the attempt is guessed and saved.       *)
(***************************************************************************)
\* a store of Cap + 1 valid entries, as another tab or a version of the page
\* that does not trim can leave it
OverfullStore ==
  ArrayStore([k \in 1..(Cap + 1) |-> PlainItem("cat", RowPath, k - Cap - 2)])

AttemptStores == {NoStore("absent"), FullStore, OverfullStore}

InitAttempt ==
  \E st \in AttemptStores, n1 \in {0, 8, 9, MaxInked}, g1 \in {26, 204},
     sk \in GateStrokes :
     Start(st, GateCanvas(n1, g1, 0, White), sk)

NextAttempt ==
  \/ stopDrawingAndGuess
  \/ \E accepted \in BOOLEAN : clock < MaxSaves /\ saveDrawing(accepted)

SpecAttempt == InitAttempt /\ [][NextAttempt]_vars

(***************************************************************************)
(* A drawing among its own copies.  The dataset holds one to MaxSame       *)
(* entries of one label, all with the grid of the line the canvas shows;   *)
(* an entry is stored without features, with the features of the line, or  *)
(* with a features object without keys.  The line on the canvas is drawn   *)
(* in one stroke, after a tap, or in two strokes over each other.          *)
(***************************************************************************)
SameShapes == {"plain", "full", "nokeys"}

SameItem(shape, label, k) ==
  IF shape = "plain" THEN PlainItem(label, RowPath, k - MaxSame - 1)
  ELSE IF shape = "full" THEN FullItem(label, RowPath, k - MaxSame - 1)
  ELSE [NoKeysItem(label) EXCEPT !.ts = k - MaxSame - 1]

SameStores ==
  {ArrayStore([k \in 1..n |-> SameItem(f[k], label, k)]) :
     <<n, f, label>> \in
       {<<n, f, label>> \in (1..MaxSame) \X
          (UNION {[1..m -> SameShapes] : m \in 1..MaxSame}) \X OBJECTS :
          DOMAIN f = 1..n}}

SameStrokes ==
  {<<RowPath>>,
   <<<<[x |-> 15, y |-> 15]>>, RowPath>>,
   <<RowPath, <<RowPath[2], RowPath[1]>>>>}

InitSame ==
  \E st \in SameStores, sk \in SameStrokes :
     Start(st, Stroke(BlankCanvas, RowPath, FALSE), sk)

NextSame == stopDrawingAndGuess

SpecSame == InitSame /\ [][NextSame]_vars

(***************************************************************************)
(* Orders of a dataset.  A session starts from a store of up to MaxOrder   *)
(* accepted entries, in every order: rows and columns labelled "cat",      *)
(* columns labelled "dog", with or without features.                       *)
(***************************************************************************)
OrderShapes ==
  {PlainItem("cat", RowPath, 0), FullItem("cat", ColumnPath, 0),
   FullItem("dog", ColumnPath, 0), NoKeysItem("cat")}

OrderStores ==
  {ArrayStore(items) :
     items \in UNION {[1..n -> OrderShapes] : n \in 0..MaxOrder}}

InitOrder == \E st \in OrderStores : Start(st, BlankCanvas, <<>>)

NextOrder == reload

SpecOrder == InitOrder /\ [][NextOrder]_vars

(***************************************************************************)
(* Training and guessing again.  A line is on the canvas, over an empty    *)
(* dataset, a full one or one beyond the cap; it is guessed and saved, and *)
(* the same line is drawn again and guessed against the dataset the save   *)
(* left.                                                                   *)
(***************************************************************************)
InitRetrain ==
  \E st \in AttemptStores :
     Start(st, Stroke(BlankCanvas, RowPath, FALSE), <<RowPath>>)

NextRetrain ==
  \/ Len(strokes) < MaxStrokes /\ startDrawing(RowPath[1])
  \/ Len(path) < MaxPoints /\ draw(RowPath[2])
  \/ stopDrawingAndGuess
  \/ clearCanvas
  \/ \E accepted \in BOOLEAN : clock < MaxSaves /\ saveDrawing(accepted)

SpecRetrain == InitRetrain /\ [][NextRetrain]_vars

(***************************************************************************)
(* Voting.  The dataset holds NEAREST - 1 to MaxVoters entries: a columns  *)
(* labelled "dog", then up to two columns labelled "cat" stored without    *)
(* features, then rows labelled "cat"; a row or a column is on the canvas  *)
(* and is guessed.  There is no save, so the cap is not involved.          *)
(***************************************************************************)
VoteItem(a, b, k) ==
  IF k <= a THEN FullItem("dog", ColumnPath, k - MaxVoters - 1)
  ELSE IF k <= a + b THEN PlainItem("cat", ColumnPath, k - MaxVoters - 1)
  ELSE FullItem("cat", RowPath, k - MaxVoters - 1)

VoteStores ==
  {ArrayStore([k \in 1..t[1] |-> VoteItem(t[2], t[3], k)]) :
     t \in {t \in ((NEAREST - 1)..MaxVoters) \X (0..MaxVoters) \X (0..2) :
              t[2] + t[3] <= t[1]}}

InitVote ==
  \E st \in VoteStores, pth \in {RowPath, ColumnPath} :
     Start(st, Stroke(BlankCanvas, pth, FALSE), <<pth>>) /\ prompt = "cat"

NextVote == stopDrawingAndGuess

SpecVote == InitVote /\ [][NextVote]_vars

(***************************************************************************)
(* Zero denominators.  The canvas is blank, holds nine covered cells or a  *)
(* row; the strokes are none, a tap, a stroke that never left its first    *)
(* point, or the row; the dataset holds entries whose vector is all zero   *)
(* and entries equal to the row on the canvas.  The attempt is guessed.    *)
(***************************************************************************)
\* an entry whose vector holds GRID_SIZE * GRID_SIZE zeros
ZeroVectorItem(label) ==
  [PlainItem(label, RowPath, 0) EXCEPT !.vector = [i \in 1..Cells |-> 0]]

FloorStores ==
  {NoStore("absent"),
   ArrayStore(<<ZeroVectorItem("cat")>>),
   ArrayStore(<<FullItem("cat", RowPath, 0)>>),
   ArrayStore(<<ZeroVectorItem("cat"), FullItem("cat", RowPath, 0)>>),
   ArrayStore(<<ZeroVectorItem("dog"), PlainItem("cat", RowPath, 0)>>),
   ArrayStore(<<ZeroVectorItem("dog"), FullItem("cat", RowPath, 0)>>),
   ArrayStore(<<FullItem("cat", RowPath, 0), FullItem("dog", ColumnPath, 0)>>)}

FloorCanvases ==
  {BlankCanvas, GateCanvas(NEAREST, 26, 0, White),
   Stroke(BlankCanvas, RowPath, FALSE)}

FloorStrokes ==
  {<<>>,
   <<<<RowPath[1]>>>>,
   <<<<RowPath[1], RowPath[1]>>>>,
   <<<<RowPath[1]>>, <<RowPath[2], RowPath[2]>>>>,
   <<RowPath>>}

InitFloor ==
  \E st \in FloorStores, cv \in FloorCanvases, sk \in FloorStrokes :
     Start(st, cv, sk)

NextFloor == stopDrawingAndGuess

SpecFloor == InitFloor /\ [][NextFloor]_vars

(***************************************************************************)
(* Shapes.  The canvas holds a shape inside a window of MaxWide columns    *)
(* and three rows away from the borders of the grid: any set of cells of   *)
(* the window is covered by the pen, and the other cells of the window are *)
(* white or of intensity 0.2, which is not active.  The shape is guessed.  *)
(***************************************************************************)
WindowCells == {CellAt(x, y) : x \in 5..(4 + MaxWide), y \in 6..8}

ShapeCanvas(covered, rest) ==
  [i \in 1..Cells |->
     IF i \in covered THEN 26 ELSE IF i \in WindowCells THEN rest ELSE White]

InitShape ==
  \E covered \in SUBSET WindowCells, rest \in {White, 204} :
     Start(NoStore("absent"), ShapeCanvas(covered, rest), <<RowPath>>)
     /\ prompt = "cat"

NextShape == stopDrawingAndGuess

SpecShape == InitShape /\ [][NextShape]_vars

(***************************************************************************)
(* The pointer.  Up to MaxDowns strokes are on the list at once, each of   *)
(* up to MaxMoves moves to the right end of the top row; releases and      *)
(* clears arrive at any moment, also while the pointer is down.            *)
(***************************************************************************)
InitPointer == Start(NoStore("absent"), BlankCanvas, <<>>)

NextPointer ==
  \/ \E point \in Points : Len(strokes) < MaxDowns /\ startDrawing(point)
  \/ Len(path) <= MaxMoves /\ draw(RowPath[2])
  \/ stopDrawingAndGuess
  \/ clearCanvas

SpecPointer == InitPointer /\ [][NextPointer]_vars

(***************************************************************************)
(* Eviction.  The store holds Cap samples, rows labelled cat and columns   *)
(* labelled dog in every arrangement, so that a save can evict the last    *)
(* sample of a label; a row or a column is on the canvas, and it is        *)
(* guessed, saved and cleared in any order.                                *)
(***************************************************************************)
LabelPath(label) == IF label = "dog" THEN ColumnPath ELSE RowPath

EvictStores ==
  {ArrayStore([k \in 1..Cap |-> FullItem(f[k], LabelPath(f[k]), k - Cap - 1)]) :
     f \in [1..Cap -> OBJECTS]}

InitEvict ==
  \E st \in EvictStores, label \in OBJECTS :
     Start(st, Stroke(BlankCanvas, LabelPath(label), FALSE), <<LabelPath(label)>>)

NextEvict ==
  \/ stopDrawingAndGuess
  \/ clearCanvas
  \/ \E accepted \in BOOLEAN : clock < MaxSaves /\ saveDrawing(accepted)

SpecEvict == InitEvict /\ [][NextEvict]_vars

(***************************************************************************)
(* Two tabs.  The page is open in two tabs on the same localStorage, both  *)
(* loaded from the same store.  This session has a row on its canvas and   *)
(* draws it again after a save; the session of the other tab saves         *)
(* columns.  MaxTabSaves samples are created in all.                       *)
(***************************************************************************)
\* the sample the other tab's saveDrawing creates from a column
PeerSample(label) ==
  [label |-> label, vector |-> LineVector(ColumnPath), hasFeatures |-> TRUE,
   features |-> combineFeatures(LineVector(ColumnPath), <<ColumnPath>>),
   ts |-> clock]

\* saveDrawing in the session of the other tab: setDataset(updated) and
\* saveDataset(updated) on its own dataset
peerSaveDrawing(label) ==
  /\ store.kind # "denied"
  /\ peer' = Updated(peer, PeerSample(label))
  /\ store' = saveDataset(Updated(peer, PeerSample(label)))
  /\ clock' = clock + 1
  /\ UNCHANGED <<dataset, snapshot, prototypes, prompt, guess, confidence, statusMessage,
                 isErasing, isDrawing, strokes, activeStroke, path, canvas, crashed,
                 last, polled>>

TabStores == {NoStore("absent"), FullStore}

InitTabs ==
  \E st \in TabStores :
     Start(st, Stroke(BlankCanvas, RowPath, FALSE), <<RowPath>>)

NextTabs ==
  \/ Len(strokes) < MaxStrokes /\ startDrawing(RowPath[1])
  \/ Len(path) < MaxPoints /\ draw(RowPath[2])
  \/ clock < MaxTabSaves /\ saveDrawing(TRUE)
  \/ \E label \in OBJECTS : clock < MaxTabSaves /\ peerSaveDrawing(label)

SpecTabs == InitTabs /\ [][NextTabs]_vars

(***************************************************************************)
(* The timer-polled version of the page (src/unnamed/part_000, lines 306   *)
(* to 621).  Releasing the pointer only stops the drawing; an interval of  *)
(* 300 ms compares drawingRevisionRef with lastGuessedRevisionRef and      *)
(* guesses when they differ.  The interval is created by an effect that    *)
(* depends on the dataset, so every new dataset clears it and creates a    *)
(* new one.  The remaining state is that of the session above; the pointer *)
(* goes down at the left end of the top row and moves to its right end.    *)
(***************************************************************************)
StartDrawingGuess == "start drawing"

LowConfidenceGuess ==
  "Low confidence guess - try cleaner strokes for better accuracy."

\* Math.max(0, (item.ts - newestTimestamp) / (14 days)), in units of 14 days
RecencyBonus(ts, newestTimestamp) == Max(0, ts - newestTimestamp)

\* Math.max(...dataset.map((item) => item.ts)) of a dataset that is not empty
NewestTimestamp(ds) ==
  CHOOSE t \in {ds[k].ts : k \in 1..Len(ds)} : \A k \in 1..Len(ds) : ds[k].ts <= t

\* pixelDist - recencyBonus of every sample
PolledScores(vec, ds) ==
  Table([k \in 1..Len(ds) |->
     [label |-> ds[k].label,
      score |-> Sub(PixelDist(vec, ds[k].vector),
                    RecencyBonus(ds[k].ts, NewestTimestamp(ds)))]])

\* the display a classification sets from the samples in ranked order
PolledVerdict(ranked) ==
  LET best   == ranked[1]
      margin == MathMax(0, Sub(IF Len(ranked) > 1 THEN ranked[2].score
                               ELSE Add(best.score, 1000),
                               best.score))
      conf   == IF best.score = NaN \/ margin = NaN THEN NaN
                ELSE Max(1, Min(99,
                       ((1000 - Min(best.score, 1000)) * 100 + margin * 20 + 500)
                         \div 1000))
  IN [guess |-> best.label,
      confidence |-> conf,
      statusMessage |-> IF conf # NaN /\ conf < 60 THEN LowConfidenceGuess ELSE ""]

\* guessDrawing of the timer-polled version: the displays it can set; shown
\* is the guess on display, which a drawing that is not meaningful keeps
polledGuessDrawing(cv, sk, ds, shown) ==
  LET drawingStats == getDrawingStats(vectorizeCanvas(cv), sk)
      scored       == PolledScores(drawingStats.vec, ds)
  IN IF ~drawingStats.hasMeaningfulDrawing
     THEN {[guess |-> shown, confidence |-> 0, statusMessage |-> DrawFirst]}
     ELSE IF Len(ds) = 0
     THEN {[guess |-> NeedTraining, confidence |-> 0,
            statusMessage |-> "Train me with a few drawings before guessing."]}
     ELSE {PolledVerdict([i \in 1..Len(scored) |-> scored[ord[i]]]) :
             ord \in SortOrders([k \in 1..Len(scored) |-> scored[k].score])}

\* an effect that clears the interval and creates none
restartInterval_ClearOnly(t) == 0 - 1

\* the effect on a new dataset: clearInterval, then setInterval(..., 300)
restartInterval(t) == TimerSteps

polledDraw(point) ==
  /\ isDrawing
  /\ path' = Append(path, point)
  /\ canvas' = Stroke(canvas, Append(path, point), isErasing)
  /\ strokes' = IF activeStroke = 0 THEN strokes
                ELSE [strokes EXCEPT ![activeStroke] = Append(@, point)]
  /\ drawingRevision' = drawingRevision + 1
  /\ UNCHANGED <<store, peer, dataset, snapshot, prototypes, prompt, guess, confidence,
                 statusMessage, isErasing, isDrawing, activeStroke, clock, crashed,
                 last, lastGuessedRevision, timer>>

\* stopDrawingAndGuess of this version: stopDrawing() and nothing else
polledStopDrawing ==
  /\ isDrawing
  /\ isDrawing' = FALSE
  /\ activeStroke' = 0
  /\ UNCHANGED <<store, peer, polled, dataset, snapshot, prototypes, prompt, guess,
                 confidence, statusMessage, isErasing, strokes, path, canvas, clock,
                 crashed, last>>

polledClearCanvas ==
  /\ canvas' = BlankCanvas
  /\ strokes' = <<>>
  /\ activeStroke' = 0
  /\ drawingRevision' = drawingRevision + 1
  /\ guess' = StartDrawingGuess
  /\ confidence' = 0
  /\ statusMessage' = ""
  /\ last' = Op("clear")
  /\ UNCHANGED <<store, peer, dataset, snapshot, prototypes, prompt, isErasing, isDrawing,
                 path, clock, crashed, lastGuessedRevision, timer>>

\* saveDrawing of this version; accepted: localStorage.setItem does not throw
polledSaveDrawing(accepted) ==
  LET drawingStats == getDrawingStats(vectorizeCanvas(canvas), strokes)
      sample  == [label |-> prompt, vector |-> drawingStats.vec,
                  hasFeatures |-> FALSE, features |-> NoKeys, ts |-> clock]
      updated == TakeLast(Append(dataset, sample), Cap)
  IN /\ UNCHANGED <<peer, snapshot, prototypes, isErasing, isDrawing, path, crashed,
                    lastGuessedRevision>>
     /\ IF ~drawingStats.hasMeaningfulDrawing
        THEN /\ accepted
             /\ statusMessage' = NopeDrawFirst
             /\ last' = Op("saveRejected")
             /\ UNCHANGED <<store, dataset, prompt, guess, confidence, strokes,
                            activeStroke, canvas, clock, drawingRevision, timer>>
        ELSE /\ clock' = clock + 1
             /\ dataset' = updated
             /\ timer' = restartInterval(timer)
             /\ IF accepted /\ store.kind # "denied"
                THEN /\ store' = saveDataset(updated)
                     /\ \E p \in OBJECTS : prompt' = p
                     /\ canvas' = BlankCanvas
                     /\ strokes' = <<>>
                     /\ activeStroke' = 0
                     /\ drawingRevision' = drawingRevision + 1
                     /\ guess' = StartDrawingGuess
                     /\ confidence' = 0
                     /\ statusMessage' = "Saved to training set. Nice."
                     /\ last' = Op("save")
                ELSE /\ last' = Op("saveThrew")
                     /\ UNCHANGED <<store, prompt, canvas, strokes, activeStroke,
                                    drawingRevision, guess, confidence, statusMessage>>

\* the callback of the interval
tick ==
  /\ timer = 0
  /\ timer' = TimerSteps
  /\ UNCHANGED <<store, peer, dataset, snapshot, prototypes, prompt, isErasing, isDrawing,
                 strokes, activeStroke, path, canvas, clock, crashed, drawingRevision>>
  /\ IF drawingRevision = lastGuessedRevision
     THEN UNCHANGED <<guess, confidence, statusMessage, last, lastGuessedRevision>>
     ELSE /\ lastGuessedRevision' = drawingRevision
          /\ last' = Op("guess")
          /\ \E r \in polledGuessDrawing(canvas, strokes, dataset, guess) :
               /\ guess' = r.guess
               /\ confidence' = r.confidence
               /\ statusMessage' = r.statusMessage

\* time passes: one step of the 300 ms is over
elapse ==
  /\ timer > 0
  /\ timer' = timer - 1
  /\ UNCHANGED <<store, peer, dataset, snapshot, prototypes, prompt, guess, confidence,
                 statusMessage, isErasing, isDrawing, strokes, activeStroke, path,
                 canvas, clock, crashed, last, drawingRevision, lastGuessedRevision>>

\* the page of this version after construction, on an absent store
InitPolled ==
  /\ store = NoStore("absent")
  /\ peer = <<>>
  /\ dataset = <<>>
  /\ snapshot = <<>>
  /\ prototypes = <<>>
  /\ crashed = FALSE
  /\ prompt \in OBJECTS
  /\ guess = StartDrawingGuess
  /\ confidence = 0
  /\ statusMessage = ""
  /\ isErasing = FALSE
  /\ isDrawing = FALSE
  /\ strokes = <<>>
  /\ activeStroke = 0
  /\ path = <<>>
  /\ canvas = BlankCanvas
  /\ clock = 0
  /\ last = Op("load")
  /\ drawingRevision = 0
  /\ lastGuessedRevision = 0 - 1
  /\ timer = TimerSteps

NextPolled ==
  \/ Len(strokes) < MaxStrokes /\ startDrawing(RowPath[1])
  \/ drawingRevision < MaxRevision /\ Len(path) < MaxPoints /\ polledDraw(RowPath[2])
  \/ polledStopDrawing
  \/ drawingRevision < MaxRevision /\ polledClearCanvas
  \/ \E accepted \in BOOLEAN :
       clock < MaxSaves /\ drawingRevision < MaxRevision /\ polledSaveDrawing(accepted)
  \/ tick
  \/ elapse

SpecPolled == InitPolled /\ [][NextPolled]_vars

\* the steps in which the interval fires: the time left is 0 and the next
\* callback is 300 ms away, with the dataset (whose change would make it a
\* new interval) as it was.  Among the steps of NextPolled these are the
\* steps of tick, and tick is enabled exactly when the time left is 0.
intervalFires == timer = 0 /\ timer' = TimerSteps /\ dataset' = dataset

\* setInterval runs its callback every 300 ms for as long as the interval
\* exists, and time passes
SpecPolledLive == SpecPolled /\ WF_timer(intervalFires) /\ WF_vars(elapse)

(***************************************************************************)
(* Properties.                                                             *)
(***************************************************************************)

\* C1: in every state of a session, from the startup load on, the dataset
\* in memory holds at most Cap (2000) samples, whatever the store held.
C1_DatasetWithinCap == Len(dataset) <= Cap

\* C2: a successful save yields the prior dataset with the new sample (the
\* prompt as label, the grid of the canvas as vector) placed last and, when
\* that exceeds Cap (2000), the oldest entries removed from the front until
\* exactly Cap remain, the others keeping their order; on a dataset of Cap
\* entries exactly the oldest one is evicted.
C2_SaveAppendsAndTrims ==
  [][(clock' # clock /\ last'.op = "save") =>
       LET n == Len(dataset) + 1
           k == IF n > Cap THEN n - Cap ELSE 0
       IN /\ Len(dataset') = n - k
          /\ Len(dataset') <= Cap
          /\ \A i \in 1..(n - k - 1) : dataset'[i] = dataset[i + k]
          /\ dataset'[n - k].label = prompt
          /\ dataset'[n - k].vector = vectorizeCanvas(canvas)
          /\ (Len(dataset) = Cap =>
                dataset' = Tail(dataset) \o <<dataset'[Cap]>>)]_vars

\* a save went through on a dataset of Cap entries: the oldest one is gone
\* and the new sample is last
C2_Witness ==
  /\ last.op = "save"
  /\ Len(dataset) = Cap
  /\ dataset[Cap].ts = 0
  /\ dataset[1].ts = 1 - Cap
  /\ store = saveDataset(dataset)

\* C3: after a load the dataset is exactly the persisted entries that pass
\* the structural check (the label is text, the vector has N*N entries and
\* all of them are numbers), in their stored order; every other entry, an
\* entry with N*N entries that are not all numbers among them, is dropped.
C3_LoadKeepsExactlyTheStructural ==
  store.kind = "array" =>
    LET items == store.items
        Structural(item) ==
          /\ item.isObject
          /\ item.labelIsString
          /\ item.vectorIsArray
          /\ Len(item.vector) = GRID_SIZE * GRID_SIZE
          /\ \A i \in 1..Len(item.vector) : item.vector[i] # NaN
        kept == {i \in 1..Len(items) : Structural(items[i])}
    IN /\ Len(dataset) = Cardinality(kept)
       /\ \A i \in kept :
            LET n == Cardinality({j \in kept : j <= i})
            IN dataset[n].label = items[i].label
               /\ dataset[n].vector = items[i].vector

\* C4: the load never raises, and a store that is absent, unreadable, not
\* parseable or not a list gives the empty dataset.
C4_LoadNeverRaises ==
  /\ ~crashed
  /\ (store.kind # "array" => dataset = <<>>)

\* the page came up with the empty dataset on a store that cannot be read
C4_Witness == store.kind = "denied" /\ dataset = <<>> /\ ~crashed

\* C5: for every grid and stroke list the attempt is meaningful iff
\* totalInk > 5 and more than 8 cells have intensity > 0.18 and at least
\* one stroke has 2 points or more, each comparison strict; a guess rejects
\* the attempt exactly when it is not meaningful.
C5_MeaningfulIffThreeStrictTests ==
  LET vec      == vectorizeCanvas(canvas)
      totalInk == Sum(vec)
      active   == {i \in 1..Cells : vec[i] > 180}
      drawn    == {k \in 1..Len(strokes) : Len(strokes[k]) >= 2}
      meaningful ==
        totalInk > 5000 /\ Cardinality(active) > 8 /\ Cardinality(drawn) > 0
  IN /\ getDrawingStats(vec, strokes).hasMeaningfulDrawing <=> meaningful
     /\ (totalInk = 5000 \/ Cardinality(active) = 8 \/ drawn = {}) =>
          ~getDrawingStats(vec, strokes).hasMeaningfulDrawing
     /\ last.op = "guess" =>
          ((guess = "unknown" /\ statusMessage = DrawFirst) <=> ~meaningful)

\* a guess rejected a grid of totalInk exactly 5 whose other two tests pass
C5_Witness ==
  /\ Sum(vectorizeCanvas(canvas)) = 5000
  /\ Cardinality({i \in 1..Cells : vectorizeCanvas(canvas)[i] > 180}) > 8
  /\ \E k \in 1..Len(strokes) : Len(strokes[k]) >= 2
  /\ last.op = "guess"
  /\ statusMessage = DrawFirst

\* C6: a guess on an attempt that is not meaningful gives "unknown" with
\* confidence 0 and leaves the dataset, the prototypes and the store as
\* they were, the dataset being empty or not.
C6_NotMeaningfulGuessIsUnknown ==
  [][(/\ last'.op = "guess"
      /\ ~getDrawingStats(vectorizeCanvas(canvas), strokes).hasMeaningfulDrawing
      /\ stopDrawingAndGuess) =>
       /\ guess' = "unknown"
       /\ confidence' = 0
       /\ dataset' = dataset
       /\ store' = store
       /\ buildPrototypes(dataset') = buildPrototypes(dataset)]_vars

\* a guess rejected an attempt while the dataset was empty
C6_Witness ==
  /\ last.op = "guess"
  /\ statusMessage = DrawFirst
  /\ guess = "unknown"
  /\ dataset = <<>>
  /\ strokes # <<>>

\* C7: a save of an attempt that is not meaningful changes the advisory
\* message only: dataset, store, prompt, strokes, guess and confidence stay.
C7_RejectedSaveChangesMessageOnly ==
  [][((\E accepted \in BOOLEAN : saveDrawing(accepted))
        /\ ~getDrawingStats(vectorizeCanvas(canvas), strokes).hasMeaningfulDrawing) =>
       /\ statusMessage' = NopeDrawFirst
       /\ UNCHANGED <<dataset, store, prompt, strokes, guess, confidence>>]_vars

\* a save was rejected on a canvas without ink (blank, or erased) that has a
\* recorded stroke of two points
C7_Witness ==
  /\ last.op = "saveRejected"
  /\ statusMessage = NopeDrawFirst
  /\ \E k \in 1..Len(strokes) : Len(strokes[k]) >= 2
  /\ canvas = BlankCanvas

\* C8: a guess on the empty dataset shows confidence 0, the attempt being
\* meaningful or not.
C8_EmptyDatasetGuessIsZero ==
  (last.op = "guess" /\ dataset = <<>>) => confidence = 0

\* a guess on a meaningful attempt met the empty dataset
C8_Witness ==
  /\ last.op = "guess"
  /\ dataset = <<>>
  /\ guess = NeedTraining
  /\ getDrawingStats(vectorizeCanvas(canvas), strokes).hasMeaningfulDrawing

\* C9: a guess that classified (a meaningful attempt, a dataset that is not
\* empty, whatever entries the load accepted) shows a confidence that is an
\* integer of 1..99.
C9_ConfidenceInRange ==
  (last.op = "guess" /\ last.classified) => confidence \in 1..99

\* C10: a guess that classified shows a label other than "unknown" only
\* with confidence >= 60 and margin >= 0.12, and the label is then the one
\* of the highest vote; with confidence < 60 or margin < 0.12 it shows
\* "unknown".
C10_LabelOnlyWhenConfident ==
  (last.op = "guess" /\ last.classified) =>
    /\ guess # "unknown" =>
         /\ confidence >= 60
         /\ last.margin >= 120
         /\ \E i \in 1..Len(last.ranked) :
              /\ last.ranked[i].label = guess
              /\ \A j \in 1..Len(last.ranked) :
                   last.ranked[j].score <= last.ranked[i].score
    /\ ((confidence # NaN /\ confidence < 60)
          \/ (last.margin # NaN /\ last.margin < 120)) => guess = "unknown"

\* The dataset holds samples of one label only, each with the grid that the
\* canvas shows.
OneLabelSameGrid ==
  /\ dataset # <<>>
  /\ \A k \in 1..Len(dataset) :
       /\ dataset[k].label = dataset[1].label
       /\ dataset[k].vector = vectorizeCanvas(canvas)

\* C11: after a guess that classified a meaningful drawing against a dataset
\* whose samples all carry one label and the grid of the drawing, the guess
\* shown is that label, the verdict is not of low confidence and the
\* confidence is at least 60.
C11_SameGridGuessesItsLabel ==
  (last.op = "guess" /\ last.classified /\ OneLabelSameGrid) =>
    /\ guess = dataset[1].label
    /\ ~last.lowConfidence
    /\ confidence >= 60

\* the dataset in the order ord of its indices
Reordered(ds, ord) == [k \in 1..Len(ds) |-> ds[ord[k]]]

\* the prototypes of a list, as a collection
PrototypeSet(protos) == {protos[n] : n \in 1..Len(protos)}

C13_PrototypesOfTheSameDataset == prototypes = buildPrototypes(dataset)

\* a drawing made after a save that evicted and was written was classified
C13_Witness ==
  /\ last.op = "guess"
  /\ last.classified
  /\ clock >= 1
  /\ Len(dataset) = Cap
  /\ dataset[Len(dataset)].ts = clock - 1
  /\ store = saveDataset(dataset)

\* C14: a step that saves leaves the array that was the dataset before it
\* as it was (same length, same samples), and every sample of the new
\* dataset but the one just created is a sample of the old dataset,
\* unchanged and in the same order; a step that draws, guesses, clears or
\* rejects a save leaves the dataset and that array as they are.
C14_SaveLeavesSnapshotAndSamples ==
  [][IF clock' # clock
     THEN /\ snapshot' = dataset
          /\ Len(dataset') >= 1
          /\ \A k \in 1..(Len(dataset') - 1) :
               dataset'[k] = dataset[k + Len(dataset) + 1 - Len(dataset')]
     ELSE /\ dataset' = dataset
          /\ snapshot' = snapshot]_vars

\* after a save that evicted, a later drawing was guessed: the array held
\* before the save still has the evicted sample
C14_Witness ==
  /\ last.op = "guess"
  /\ clock >= 1
  /\ Len(snapshot) = Cap
  /\ Len(dataset) = Cap
  /\ snapshot[1] # dataset[1]
  /\ strokes # <<>>

\* C15: the sample a save creates carries as its label the prompt that was
\* current when the save was made, a word of the prompt vocabulary, and it
\* keeps that label when the save rotates the prompt.
C15_NewSampleLabelledWithPrompt ==
  [][clock' # clock =>
       /\ Len(dataset') >= 1
       /\ dataset'[Len(dataset')].label = prompt
       /\ dataset'[Len(dataset')].ts = clock
       /\ \A k \in 1..Len(dataset') :
            dataset'[k].ts >= 0 => dataset'[k].label \in OBJECTS]_vars

\* a save stored a sample and rotated the prompt to another word
C15_Witness ==
  /\ last.op = "save"
  /\ dataset[Len(dataset)].ts = clock - 1
  /\ dataset[Len(dataset)].label # prompt

\* C16: a save that puts a new dataset in memory completes: the store then
\* holds that dataset, the canvas and the strokes are reset and the
\* confirmation is shown, whatever the store does with the write.
C16_SaveCompletes ==
  [][clock' # clock =>
       /\ store' = saveDataset(dataset')
       /\ canvas' = BlankCanvas
       /\ strokes' = <<>>
       /\ statusMessage' = "Saved to training set. Nice."]_vars

\* C17: right after a save whose write went through, the store holds an
\* array of exactly the samples of the dataset in memory, in the same
\* order, every one an entry that load accepts, so that loading it gives
\* the dataset back; nothing of the previous content is left.
C17_StoreIsTheDataset ==
  last.op = "save" =>
    /\ store.kind = "array"
    /\ Len(store.items) = Len(dataset)
    /\ \A k \in 1..Len(dataset) :
         Accepts(store.items[k]) /\ FromJSON(store.items[k]) = dataset[k]
    /\ loadDataset(store) = [threw |-> FALSE, value |-> dataset]

\* a save went through on the store that held Cap accepted entries and an
\* entry that load had dropped
C17_Witness ==
  /\ last.op = "save"
  /\ Len(dataset) = Cap
  /\ dataset[1] = FromJSON(StoredItem(2))
  /\ dataset[Cap].ts = 0

\* the samples of the dataset and the prototypes, scored against the
\* drawing on the canvas
ScoredNow ==
  ScoreExamples(vectorizeCanvas(canvas),
                combineFeatures(vectorizeCanvas(canvas), strokes), dataset)

ScoredPrototypesNow ==
  ScorePrototypes(vectorizeCanvas(canvas),
                  combineFeatures(vectorizeCanvas(canvas), strokes), prototypes)

\* the sets of min(NEAREST, dataset size) samples such that no sample
\* outside is strictly nearer than one inside
VoterSets(scored) ==
  {V \in SUBSET (1..Len(scored)) :
     /\ Cardinality(V) = Min(NEAREST, Len(scored))
     /\ \A i \in V, j \in (1..Len(scored)) \ V :
          ~(scored[j].dist < scored[i].dist)}

\* the tally of label when the samples V and every prototype vote
Tally(scored, scoredPrototypes, V, label) ==
  Sum([i \in 1..Len(scored) |->
         IF i \in V /\ scored[i].label = label
         THEN VoteWeight(1000, scored[i].dist) ELSE 0])
  + Sum([p \in 1..Len(scoredPrototypes) |->
         IF scoredPrototypes[p].label = label
         THEN VoteWeight(900, scoredPrototypes[p].dist) ELSE 0])

\* the ranked tallies are those of the voters V and all the prototypes
RankedFrom(ranked, scored, scoredPrototypes, V) ==
  /\ {ranked[r].label : r \in 1..Len(ranked)}
       = {scored[i].label : i \in V}
         \cup {scoredPrototypes[p].label : p \in 1..Len(scoredPrototypes)}
  /\ \A r \in 1..Len(ranked) :
       ranked[r].score = Tally(scored, scoredPrototypes, V, ranked[r].label)

ZeroNorm(v) == \A i \in 1..Len(v) : v[i] = 0

\* the vectors the drawing on the canvas is compared with
ComparedVectors ==
  {dataset[k].vector : k \in 1..Len(dataset)}
  \cup {prototypes[p].vector : p \in 1..Len(prototypes)}

\* C19: no division by zero in a distance, a feature or a vote.  Every
\* feature of the attempt is a number, also for a blank grid and for
\* strokes of no length; cosineDistance is 1 when either vector has zero
\* norm; and every tally of a guess is positive and at most 1 / 0.05 per
\* voting sample plus 0.9 / 0.05 for the prototype, also when a distance
\* is zero or, for a prototype, negative.
C19_NoDivisionByZero ==
  LET vec      == vectorizeCanvas(canvas)
      features == combineFeatures(vec, strokes)
  IN /\ \A key \in FeatureKeys : features[key] # NaN /\ features[key] >= 0
     /\ \A v \in ComparedVectors :
          /\ cosineDistance(vec, v) # NaN
          /\ ZeroNorm(vec) \/ ZeroNorm(v) => cosineDistance(vec, v) = 1000
     /\ (last.op = "guess" /\ last.classified) =>
          \A r \in 1..Len(last.ranked) :
             /\ last.ranked[r].score # NaN
             /\ last.ranked[r].score > 0
             /\ last.ranked[r].score
                  <= 20000 * Min(NEAREST, Len(dataset)) + 18000

\* a guess classified a drawing against a sample of zero norm, a sample at
\* distance zero and a prototype at a distance below zero
C19_Witness ==
  /\ last.op = "guess"
  /\ last.classified
  /\ \E k \in 1..Len(dataset) : ZeroNorm(dataset[k].vector)
  /\ \E k \in 1..Len(dataset) : ScoredNow[k].dist = 0
  /\ \E p \in 1..Len(prototypes) : ScoredPrototypesNow[p].dist < 0

\* the cells of intensity above 0.2, as <<column, row>>
ActiveAt(vector) ==
  {<<CellX(i), CellY(i)>> : i \in {j \in 1..Len(vector) : vector[j] > 200}}

\* mirror-symmetric left to right within the bounding box
MirrorSymmetricX(A) ==
  \A c \in A :
     <<SetMin({d[1] : d \in A}) + SetMax({d[1] : d \in A}) - c[1], c[2]>> \in A

\* mirror-symmetric top to bottom within the bounding box
MirrorSymmetricY(A) ==
  \A c \in A :
     <<c[1], SetMin({d[2] : d \in A}) + SetMax({d[2] : d \in A}) - c[2]>> \in A

\* C20: when the active cells of the grid are mirror-symmetric left to
\* right within their bounding box, the features of the shape have
\* symmetryX exactly 1; when they are symmetric top to bottom, symmetryY is
\* exactly 1.
C20_SymmetricShapeScoresOne ==
  LET vec == vectorizeCanvas(canvas)
      A   == ActiveAt(vec)
  IN /\ MirrorSymmetricX(A) => extractShapeFeatures(vec).symmetryX = 1000
     /\ MirrorSymmetricY(A) => extractShapeFeatures(vec).symmetryY = 1000

\* a guess looked at a shape of several columns that is symmetric left to
\* right but not top to bottom
C20_Witness ==
  LET vec == vectorizeCanvas(canvas)
      A   == ActiveAt(vec)
  IN /\ last.op = "guess"
     /\ Cardinality({c[1] : c \in A}) >= 3
     /\ Cardinality(A) < 9
     /\ MirrorSymmetricX(A)
     /\ ~MirrorSymmetricY(A)
     /\ extractShapeFeatures(vec).symmetryX = 1000
     /\ extractShapeFeatures(vec).symmetryY < 1000

\* stroke s with zero or more points added at its end is stroke t
Extends(s, t) == Len(t) >= Len(s) /\ SubSeq(t, 1, Len(s)) = s

C22_ReleaseStopsThenGuesses ==
  [][stopDrawingAndGuess =>
       /\ ~isDrawing'
       /\ activeStroke' = 0
       /\ \E r \in guessDrawing(canvas', strokes', dataset', buildPrototypes(dataset')) :
            /\ guess' = r.guess
            /\ confidence' = r.confidence
            /\ statusMessage' = r.statusMessage]_vars

\* a line drawn after a save has been released and classified
C22_Witness ==
  /\ last.op = "guess"
  /\ last.classified
  /\ ~isDrawing
  /\ Len(path) = 2
  /\ clock = 1
  /\ guess \in OBJECTS

\* C23: clear resets the attempt and nothing else.  After a clear the canvas
\* is blank, the stroke list is empty, the guess is "unknown", the confidence
\* is 0 and the message is empty; the dataset, the persisted store and the
\* prompt are what they were.
C23_ClearResetsTheAttemptOnly ==
  [][clearCanvas =>
       /\ canvas' = BlankCanvas
       /\ strokes' = <<>>
       /\ guess' = "unknown"
       /\ confidence' = 0
       /\ statusMessage' = ""
       /\ dataset' = dataset
       /\ store' = store
       /\ prompt' = prompt
       /\ prototypes' = prototypes]_vars

\* a clear of the attempt that a save with a failed write left on the canvas,
\* over a dataset at the cap
C23_Witness ==
  /\ last.op = "clear"
  /\ clock = 1
  /\ strokes = <<>>
  /\ Len(dataset) = Cap
  /\ store.kind = "array"
  /\ store.items # dataset

\* the labels of the samples of ds
LabelsOf(ds) == {ds[k].label : k \in 1..Len(ds)}

\* C24: whenever the displayed guess is neither "unknown" nor the
\* needs-training-data sentinel, it is the label of at least one sample of
\* the current dataset and the displayed confidence is at least 60.
C24_ShownLabelIsInTheDataset ==
  (guess # "unknown" /\ guess # NeedTraining) =>
    /\ guess \in LabelsOf(dataset)
    /\ confidence # NaN
    /\ confidence >= 60

\* the same, in the states that no save with a failed write has left
C24_ShownLabelUnlessWriteFailed ==
  last.op # "saveThrew" => C24_ShownLabelIsInTheDataset

\* C25: under every interleaving of pointer-down, move, release and clear,
\* a pointer move that draws ink on the canvas also appends its point to a
\* recorded stroke.
C25_InkIsRecorded ==
  [][\A point \in Points :
       (draw(point) /\ canvas' # canvas) =>
         \E k \in 1..Len(strokes) :
            /\ Len(strokes') = Len(strokes)
            /\ strokes'[k] = Append(strokes[k], point)]_vars

\* the bundle extractShapeFeatures returns for a grid without active cells
Degenerate(features) ==
  features.fillRatio = 0 /\ features.compactness = 0 /\ features.edgeDensity = 0

\* C26: an attempt that passed the meaningful-drawing gate of a guess has at
\* least one cell of intensity above 0.2, so its shape features are not the
\* degenerate bundle; nor are the features of a sample that a save has just
\* stored.
C26_GatedAttemptHasActiveCell ==
  /\ (/\ last.op = "guess"
      /\ getDrawingStats(vectorizeCanvas(canvas), strokes).hasMeaningfulDrawing) =>
       /\ ActiveCells(vectorizeCanvas(canvas)) # {}
       /\ ~Degenerate(extractShapeFeatures(vectorizeCanvas(canvas)))
  /\ last.op \in {"save", "saveThrew"} =>
       ~Degenerate(dataset[Len(dataset)].features)

\* the samples of ds that carry the label
SamplesOf(ds, label) == {k \in 1..Len(ds) : ds[k].label = label}

\* protos holds exactly one prototype per label of ds, each with the number
\* of samples of its label as count, and the counts add up to the size of ds
OnePerLabel(protos, ds) ==
  /\ \A i, j \in 1..Len(protos) : protos[i].label = protos[j].label => i = j
  /\ {protos[i].label : i \in 1..Len(protos)} = LabelsOf(ds)
  /\ \A i \in 1..Len(protos) :
       protos[i].count = Cardinality(SamplesOf(ds, protos[i].label))
  /\ Sum([i \in 1..Len(protos) |-> protos[i].count]) = Len(ds)

\* C27: buildPrototypes returns exactly one prototype per distinct label of
\* the dataset, with the number of samples of that label as its count, the
\* counts summing to the dataset size; and the prototypes the session holds
\* are such, so that after any save, also one that evicts the last sample of
\* a label, no prototype exists for a label absent from the dataset.
C27_OnePrototypePerLabel ==
  /\ OnePerLabel(buildPrototypes(dataset), dataset)
  /\ OnePerLabel(prototypes, dataset)

\* a save has evicted the last sample of one of two labels
C27_Witness ==
  /\ last.op \in {"save", "saveThrew"}
  /\ Cardinality(LabelsOf(snapshot)) = 2
  /\ Cardinality(LabelsOf(dataset)) = 1
  /\ Len(prototypes) = 1
  /\ prototypes[1].count = Cap

\* C28: with two sessions on the same store, a persisted sample is still in
\* the store after any session saves, unless FIFO eviction at the cap
\* removed it: of the samples in the store before a write, all but those
\* that are not among the last Cap - 1 are in the store after it.
C28_PersistedSampleSurvives ==
  [][store' # store =>
       \A k \in 1..Len(store.items) :
          Len(store.items) - k + 1 < Cap =>
            \E j \in 1..Len(store'.items) : store'.items[j] = store.items[k]]_vars

\* C29: in the timer-polled version, whenever the drawing has a revision
\* that has not been guessed, the interval eventually runs a guess of the
\* latest revision, so that lastGuessedRevision equals drawingRevision
\* again; a save that replaces the dataset and restarts the interval in
\* between does not prevent it.
C29_LatestRevisionIsGuessed ==
  (drawingRevision # lastGuessedRevision) ~> (drawingRevision = lastGuessedRevision)

\* the drawing has stopped after a save and later changes, and the interval
\* has guessed its latest revision
C29_Witness ==
  /\ clock = 1
  /\ drawingRevision = MaxRevision
  /\ lastGuessedRevision = drawingRevision
  /\ ~isDrawing
  /\ guess \in OBJECTS

\* the steps of the interval's callback are the steps in which the interval
\* fires
C29_IntervalFiresIsTick == [][<<intervalFires>>_timer <=> <<tick>>_vars]_vars

\* the dataset is not empty and all its samples carry one label
OneLabel(ds) == ds # <<>> /\ \A k \in 1..Len(ds) : ds[k].label = ds[1].label

\* the guess ranked one label, with a positive tally (certainty 1) that is
\* also the margin, and the confidence shown is at least 66
CertainOfOneLabel ==
  /\ Len(last.ranked) = 1
  /\ Gt(last.ranked[1].score, 0)
  /\ last.margin = last.ranked[1].score
  /\ Gt(confidence, 65)

\* C30: when all samples of a dataset that is not empty carry the same
\* label, every guess that classified a meaningful attempt has certainty 1
\* and a margin equal to the whole winning tally, and shows a confidence of
\* at least 66.
C30_OneLabelIsCertain ==
  (last.op = "guess" /\ last.classified /\ OneLabel(dataset)) => CertainOfOneLabel

\* the same, for the datasets whose vectors hold numbers only
C30_OneLabelIsCertainOfNumbers ==
  (/\ last.op = "guess"
   /\ last.classified
   /\ OneLabel(dataset)
   /\ \A k \in 1..Len(dataset) : \A i \in 1..Cells : dataset[k].vector[i] # NaN) =>
    CertainOfOneLabel

=============================================================================
